---- MODULE Spec2Model ----
(***************************************************************************)
(* A model of galleon/bablify's WebRTC DataChannel test tooling:           *)
(*   - webrtc_test_server.py: safe_channel_send and WebRTCTestServer       *)
(*     (the /webrtc/offer, /test and /status handlers and the data channel *)
(*     callbacks on_datachannel, on_open, on_message, on_close);           *)
(*   - debug_webrtc_connection.py: WebRTCDebugger.diagnose_webrtc_issues   *)
(*     and its probes.                                                     *)
(*                                                                         *)
(* Text is a sequence of symbols.  A symbol is one structural character    *)
(* ({ } [ ] : , " \ - space, a digit) or one run of letters ("type",       *)
(* "chat", "null").  Python values are tagged records.                     *)
(***************************************************************************)
EXTENDS Integers, Sequences, FiniteSets, TLC

VARIABLES
    gpc, gchannel, gpayload, gsendFails, gout,
    aiortc, connections, data_channels, pcs, channels, uuidsUsed, last,
    dpc, dworld, dlog, dconfig, dofferOk, dexc

gvars == <<gpc, gchannel, gpayload, gsendFails, gout>>
svars == <<aiortc, connections, data_channels, pcs, channels, uuidsUsed, last>>
dvars == <<dpc, dworld, dlog, dconfig, dofferOk, dexc>>
vars == <<gvars, svars, dvars>>

(***************************************************************************)
(* Python values                                                           *)
(***************************************************************************)
PyNone == [t |-> "none"]
PyBool(b) == [t |-> "bool", b |-> b]
PyInt(n) == [t |-> "int", n |-> n]
PyStr(s) == [t |-> "str", s |-> s]
PyList(items) == [t |-> "list", items |-> items]
\* a dict is its items in insertion order, each <<key text, value>>
PyDict(items) == [t |-> "dict", items |-> items]
\* a value json.dumps cannot encode
PyBytes == [t |-> "bytes"]

HasKey(d, k) == \E i \in 1..Len(d.items) : d.items[i][1] = k

\* dict.get(k, default)
DictGet(d, k, default) ==
    IF HasKey(d, k)
    THEN d.items[CHOOSE i \in 1..Len(d.items) : d.items[i][1] = k][2]
    ELSE default

\* d[k] = v on the item list: a present key keeps its place
DictSet(items, k, v) ==
    IF \E i \in 1..Len(items) : items[i][1] = k
    THEN [i \in 1..Len(items) |-> IF items[i][1] = k THEN <<k, v>> ELSE items[i]]
    ELSE Append(items, <<k, v>>)

\* bool(x) of a Python value
Truthy(v) ==
    CASE v.t = "none" -> FALSE
      [] v.t = "bool" -> v.b
      [] v.t = "int" -> v.n # 0
      [] v.t = "str" -> v.s # <<>>
      [] v.t = "list" -> v.items # <<>>
      [] v.t = "dict" -> v.items # <<>>
      [] v.t = "bytes" -> TRUE

(***************************************************************************)
(* Decimal text of integers                                                *)
(***************************************************************************)
DigitChars == <<"0", "1", "2", "3", "4", "5", "6", "7", "8", "9">>
IsDigit(c) == \E d \in 1..10 : DigitChars[d] = c
DigitVal(c) == (CHOOSE d \in 1..10 : DigitChars[d] = c) - 1

RECURSIVE NatText(_)
NatText(n) ==
    IF n < 10 THEN <<DigitChars[n + 1]>>
    ELSE NatText(n \div 10) \o <<DigitChars[(n % 10) + 1]>>

IntText(n) == IF n < 0 THEN <<"-">> \o NatText(0 - n) ELSE NatText(n)

(***************************************************************************)
(* json.dumps with the default separators ", " and ": "                    *)
(***************************************************************************)
RECURSIVE EscapeString(_)
EscapeString(s) ==
    IF s = <<>> THEN <<>>
    ELSE (IF Head(s) \in {"\"", "\\"} THEN <<"\\", Head(s)>> ELSE <<Head(s)>>)
         \o EscapeString(Tail(s))

QuoteString(s) == <<"\"">> \o EscapeString(s) \o <<"\"">>

RECURSIVE DumpsText(_), DumpsItems(_, _)
DumpsText(v) ==
    CASE v.t = "none" -> <<"null">>
      [] v.t = "bool" -> IF v.b THEN <<"true">> ELSE <<"false">>
      [] v.t = "int" -> IntText(v.n)
      [] v.t = "str" -> QuoteString(v.s)
      [] v.t = "list" -> <<"[">> \o DumpsItems(v.items, FALSE) \o <<"]">>
      [] v.t = "dict" -> <<"{">> \o DumpsItems(v.items, TRUE) \o <<"}">>

DumpsItems(items, keyed) ==
    IF items = <<>> THEN <<>>
    ELSE (IF keyed
          THEN QuoteString(Head(items)[1]) \o <<":", " ">> \o DumpsText(Head(items)[2])
          ELSE DumpsText(Head(items)))
         \o (IF Len(items) > 1 THEN <<",", " ">> ELSE <<>>)
         \o DumpsItems(Tail(items), keyed)

RECURSIVE Serializable(_)
Serializable(v) ==
    CASE v.t = "bytes" -> FALSE
      [] v.t = "list" -> \A i \in 1..Len(v.items) : Serializable(v.items[i])
      [] v.t = "dict" -> \A i \in 1..Len(v.items) : Serializable(v.items[i][2])
      [] OTHER -> TRUE

\* json.dumps(v): the text, or TypeError
Dumps(v) ==
    IF Serializable(v) THEN [ok |-> TRUE, text |-> DumpsText(v)]
    ELSE [ok |-> FALSE, exc |-> "TypeError"]

(***************************************************************************)
(* json.loads                                                              *)
(***************************************************************************)
ParseFail == [ok |-> FALSE]
ParseOk(v, pos) == [ok |-> TRUE, val |-> v, pos |-> pos]

RECURSIVE SkipWs(_, _)
SkipWs(s, i) == IF i <= Len(s) /\ s[i] = " " THEN SkipWs(s, i + 1) ELSE i

\* i is the place after the opening quote
RECURSIVE ParseStringBody(_, _, _)
ParseStringBody(s, i, acc) ==
    IF i > Len(s) THEN ParseFail
    ELSE IF s[i] = "\"" THEN ParseOk(acc, i + 1)
    ELSE IF s[i] = "\\"
         THEN IF i + 1 <= Len(s) /\ s[i + 1] \in {"\"", "\\"}
              THEN ParseStringBody(s, i + 2, Append(acc, s[i + 1]))
              ELSE ParseFail
    ELSE ParseStringBody(s, i + 1, Append(acc, s[i]))

RECURSIVE ParseDigits(_, _, _)
ParseDigits(s, i, acc) ==
    IF i <= Len(s) /\ IsDigit(s[i])
    THEN ParseDigits(s, i + 1, acc * 10 + DigitVal(s[i]))
    ELSE ParseOk(acc, i)

\* -?(0|[1-9][0-9]*)
ParseNumber(s, i) ==
    LET neg == s[i] = "-"
        j == IF neg THEN i + 1 ELSE i
    IN  IF j > Len(s) \/ ~IsDigit(s[j]) THEN ParseFail
        ELSE LET d == IF s[j] = "0" THEN ParseOk(0, j + 1) ELSE ParseDigits(s, j, 0)
             IN  ParseOk(PyInt(IF neg THEN 0 - d.val ELSE d.val), d.pos)

RECURSIVE ParseValue(_, _), ParseElements(_, _, _), ParseMembers(_, _, _)
ParseValue(s, i) ==
    IF i > Len(s) THEN ParseFail
    ELSE CASE s[i] = "{" ->
                  LET j == SkipWs(s, i + 1)
                  IN  IF j <= Len(s) /\ s[j] = "}" THEN ParseOk(PyDict(<<>>), j + 1)
                      ELSE ParseMembers(s, j, <<>>)
           [] s[i] = "[" ->
                  LET j == SkipWs(s, i + 1)
                  IN  IF j <= Len(s) /\ s[j] = "]" THEN ParseOk(PyList(<<>>), j + 1)
                      ELSE ParseElements(s, j, <<>>)
           [] s[i] = "\"" ->
                  LET r == ParseStringBody(s, i + 1, <<>>)
                  IN  IF r.ok THEN ParseOk(PyStr(r.val), r.pos) ELSE ParseFail
           [] s[i] = "-" \/ IsDigit(s[i]) -> ParseNumber(s, i)
           [] s[i] = "null" -> ParseOk(PyNone, i + 1)
           [] s[i] = "true" -> ParseOk(PyBool(TRUE), i + 1)
           [] s[i] = "false" -> ParseOk(PyBool(FALSE), i + 1)
           [] OTHER -> ParseFail

\* i is the place of the next element
ParseElements(s, i, acc) ==
    LET r == ParseValue(s, i)
    IN  IF ~r.ok THEN ParseFail
        ELSE LET j == SkipWs(s, r.pos)
             IN  IF j > Len(s) THEN ParseFail
                 ELSE IF s[j] = "]" THEN ParseOk(PyList(Append(acc, r.val)), j + 1)
                 ELSE IF s[j] = "," THEN ParseElements(s, SkipWs(s, j + 1), Append(acc, r.val))
                 ELSE ParseFail

\* i is the place of the next member's key
ParseMembers(s, i, acc) ==
    IF i > Len(s) \/ s[i] # "\"" THEN ParseFail
    ELSE LET k == ParseStringBody(s, i + 1, <<>>)
         IN  IF ~k.ok THEN ParseFail
             ELSE LET c == SkipWs(s, k.pos)
                  IN  IF c > Len(s) \/ s[c] # ":" THEN ParseFail
                      ELSE LET r == ParseValue(s, SkipWs(s, c + 1))
                           IN  IF ~r.ok THEN ParseFail
                               ELSE LET j == SkipWs(s, r.pos)
                                        items == DictSet(acc, k.val, r.val)
                                    IN  IF j > Len(s) THEN ParseFail
                                        ELSE IF s[j] = "}" THEN ParseOk(PyDict(items), j + 1)
                                        ELSE IF s[j] = ","
                                             THEN ParseMembers(s, SkipWs(s, j + 1), items)
                                        ELSE ParseFail

\* json.loads(text): the value, or JSONDecodeError
Loads(text) ==
    LET r == ParseValue(text, SkipWs(text, 1))
    IN  IF r.ok /\ SkipWs(text, r.pos) > Len(text)
        THEN [ok |-> TRUE, val |-> r.val]
        ELSE [ok |-> FALSE, exc |-> "JSONDecodeError"]

(***************************************************************************)
(* Transport handles and safe_channel_send                                 *)
(***************************************************************************)
ReadyStates == {"connecting", "open", "closing", "closed"}

\* what a caller can hand to safe_channel_send as the channel
NoChannel == [kind |-> "None"]
BareObject == [kind |-> "object"]
Channel(rs) == [kind |-> "channel", readyState |-> rs]

\* channel.send(text): the call is recorded; RTCDataChannel.send raises
\* InvalidStateError unless the channel is open, and the transport may fail
ChannelSend(channel, text, sendFails) ==
    [calls |-> <<text>>,
     exc |-> IF channel.readyState # "open" THEN "InvalidStateError"
             ELSE IF sendFails THEN "ConnectionError"
             ELSE "none"]

\* a try block that encodes every payload, a string too
TrySendAlwaysDumps(channel, message_data, sendFails) ==
    LET d == Dumps(message_data)
    IN  IF d.ok THEN ChannelSend(channel, d.text, sendFails)
        ELSE [calls |-> <<>>, exc |-> d.exc]

\* the body of the try block
TrySend(channel, message_data, sendFails) ==
    IF message_data.t = "str"
    THEN ChannelSend(channel, message_data.s, sendFails)
    ELSE LET d == Dumps(message_data)
         IN  IF d.ok THEN ChannelSend(channel, d.text, sendFails)
             ELSE [calls |-> <<>>, exc |-> d.exc]

SendOutcome(ret, calls, log) ==
    [ret |-> ret, calls |-> calls, raised |-> "none", log |-> log]

\* the send without the readyState check
SendUnchecked(channel, message_data, sendFails) ==
    IF channel.kind # "channel" THEN SendOutcome(FALSE, <<>>, "warning")
    ELSE LET r == TrySend(channel, message_data, sendFails)
         IN  IF r.exc = "none" THEN SendOutcome(TRUE, r.calls, "info")
             ELSE SendOutcome(FALSE, r.calls, "error")

\* the send without the except clause
SendUncaught(channel, message_data, sendFails) ==
    IF channel.kind # "channel" THEN SendOutcome(FALSE, <<>>, "warning")
    ELSE IF channel.readyState # "open" THEN SendOutcome(FALSE, <<>>, "warning")
    ELSE LET r == TrySend(channel, message_data, sendFails)
         IN  [ret |-> r.exc = "none", calls |-> r.calls, raised |-> r.exc, log |-> "info"]

safe_channel_send(channel, message_data, sendFails) ==
    IF channel.kind = "None" THEN SendOutcome(FALSE, <<>>, "warning")
    ELSE IF channel.kind # "channel" THEN SendOutcome(FALSE, <<>>, "warning")
    ELSE IF channel.readyState # "open" THEN SendOutcome(FALSE, <<>>, "warning")
    ELSE LET r == TrySend(channel, message_data, sendFails)
         IN  IF r.exc = "none" THEN SendOutcome(TRUE, r.calls, "info")
             ELSE SendOutcome(FALSE, r.calls, "error")

(***************************************************************************)
(* safe_channel_send on its own: every kind of handle, payload and         *)
(* transport outcome                                                       *)
(***************************************************************************)
MaxNum == 12

GuardChannels == {NoChannel, BareObject} \cup {Channel(rs) : rs \in ReadyStates}

ChatPayload == PyDict(<< <<<<"type">>, PyStr(<<"chat">>)>>, <<<<"data">>, PyStr(<<"hi">>)>> >>)

GuardPayloads ==
    { PyStr(<<"hi">>), PyStr(<<>>), PyStr(<<"{", "\"", "a", "\"", ":", "1", "}">>),
      PyStr(<<"say", " ", "\"", "x", "\\">>),
      ChatPayload,
      PyDict(<<>>), PyList(<<>>), PyNone, PyBool(TRUE), PyBool(FALSE),
      PyDict(<< <<<<"type">>, PyStr(<<"echo">>)>>,
                <<<<"original">>,
                  PyDict(<< <<<<"q", "\"">>, PyList(<<PyInt(1), PyNone, PyStr(<<"\\", "n">>)>>)>>,
                            <<<<"b">>, PyBool(FALSE)>> >>)>> >>),
      PyList(<<PyStr(<<"a", " ", "b">>), PyList(<<PyInt(0)>>), PyDict(<<>>)>>),
      PyBytes,
      PyDict(<< <<<<"data">>, PyBytes>> >>) }
    \cup {PyInt(n) : n \in (0 - MaxNum)..MaxNum}

NoOutcome == [ret |-> FALSE, calls |-> <<>>, raised |-> "none", log |-> "none"]

GuardInit ==
    /\ gpc = "ready"
    /\ gchannel \in GuardChannels
    /\ gpayload \in GuardPayloads
    /\ gsendFails \in BOOLEAN
    /\ gout = NoOutcome

GuardIdle ==
    /\ gpc = "idle"
    /\ gchannel = NoChannel
    /\ gpayload = PyNone
    /\ gsendFails = FALSE
    /\ gout = NoOutcome

GuardCall ==
    /\ gpc = "ready"
    /\ gout' = safe_channel_send(gchannel, gpayload, gsendFails)
    /\ gpc' = "done"
    /\ UNCHANGED <<gchannel, gpayload, gsendFails>>

GuardAgain ==
    /\ gpc = "done"
    /\ gpc' = "ready"
    /\ gchannel' \in GuardChannels
    /\ gpayload' \in GuardPayloads
    /\ gsendFails' \in BOOLEAN
    /\ gout' = NoOutcome

(***************************************************************************)
(* WebRTCTestServer: the registry, the engine's objects and the handlers   *)
(***************************************************************************)
MaxPcs == 2
MaxChannels == 2
MaxUuids == 1

\* a request body request.json() cannot decode
BadBody == [t |-> "invalid"]

\* str(uuid.uuid4()): the n-th identifier drawn, different from every other
Uuid(n) == PyStr(<<"uuid4", "-">> \o NatText(n))

ClientIds == {PyStr(<<"a">>)}

GoodSdp == <<"v=0", " ", "m=application">>

\* the engine's RTCSessionDescription, setRemoteDescription, createAnswer and
\* setLocalDescription: an answer to a well-formed offer, an exception otherwise
EngineNegotiate(offer_sdp, offer_type) ==
    IF offer_type = PyStr(<<"offer">>) /\ offer_sdp = PyStr(GoodSdp)
    THEN [exc |-> "none", answer |-> [type |-> <<"answer">>, sdp |-> <<"v=0", " ", "a=setup:active">>]]
    ELSE [exc |-> "ValueError"]

\* a key of a Python dict must be hashable
Hashable(v) == v.t \notin {"list", "dict"}

\* the decorator expression of on_datachannel: pc.on("datachannel") registers the
\* handler; the fallback lambda takes no argument and is called with one
DatachannelDecorator(available) == IF available THEN "none" ELSE "TypeError"

Keys(f) == DOMAIN f
\* data_channels is a dict that is iterated: its items in insertion order
ItemKeys(items) == {items[i][1] : i \in 1..Len(items)}
ItemGet(items, k) == items[CHOOSE i \in 1..Len(items) : items[i][1] = k][2]
RECURSIVE ItemDel(_, _)
ItemDel(items, k) ==
    IF items = <<>> THEN <<>>
    ELSE IF Head(items)[1] = k THEN Tail(items)
    ELSE <<Head(items)>> \o ItemDel(Tail(items), k)
\* del d[k]: KeyError when k is not a key of d
PyDel(items, k) ==
    IF k \in ItemKeys(items)
    THEN [exc |-> "none", items |-> ItemDel(items, k)]
    ELSE [exc |-> "KeyError", items |-> items]
\* an assignment d[k] = v that stores nothing
PutNothing(f, k, v) == f

Put(f, k, v) == [x \in (DOMAIN f) \cup {k} |-> IF x = k THEN v ELSE f[x]]
EmptyMap == [x \in {} |-> 0]

\* what the last handler was given and what it did: the request or event, the
\* response, the calls of safe_channel_send, the exception that left it, and for
\* an offer the number of connections before it; for an offer and a close event
\* the two maps as they were before it
NoBefore == [connections |-> EmptyMap, data_channels |-> <<>>]

NoObs ==
    [op |-> "none", wid |-> PyNone, ch |-> 0, input |-> PyNone, status |-> 0,
     text |-> <<>>, attempts |-> <<>>, raised |-> "none", connectionsBefore |-> 0,
     before |-> NoBefore]

\* one call of safe_channel_send by a handler, as the handler sees it
Attempt(c, readyState, payload, sendFails) ==
    LET r == safe_channel_send(Channel(readyState), payload, sendFails)
    IN  [ch |-> c, payload |-> payload, ret |-> r.ret, calls |-> r.calls, raised |-> r.raised]

ErrorResponse(exc) == Dumps(PyDict(<< <<<<"error">>, PyStr(<<exc>>)>> >>)).text

ServerInit ==
    /\ aiortc \in BOOLEAN
    /\ connections = EmptyMap
    /\ data_channels = <<>>
    /\ pcs = <<>>
    /\ channels = <<>>
    /\ uuidsUsed = 0
    /\ last = NoObs

ServerIdle ==
    /\ aiortc = TRUE
    /\ connections = EmptyMap
    /\ data_channels = <<>>
    /\ pcs = <<>>
    /\ channels = <<>>
    /\ uuidsUsed = 0
    /\ last = NoObs

OfferType == << <<<<"type">>, PyStr(<<"offer">>)>> >>
OfferSdp(sdp) == << <<<<"sdp">>, PyStr(sdp)>> >>
OfferId(i) == << <<<<"webrtc_id">>, i>> >>

\* well-formed offers with and without an id, with an id no dict can hold, and
\* offers the engine rejects: a garbage sdp, no sdp and type at all
OfferBodies ==
    {BadBody, PyList(<<>>)}
    \cup {PyDict(OfferType \o OfferSdp(GoodSdp))}
    \cup {PyDict(OfferId(i) \o OfferType \o OfferSdp(GoodSdp)) : i \in ClientIds \cup {PyList(<<>>)}}
    \cup {PyDict(OfferType \o OfferSdp(<<"garbage">>)), PyDict(<<>>),
          PyDict(OfferId(PyStr(<<"a">>)) \o OfferType \o OfferSdp(<<"garbage">>)),
          PyDict(OfferId(PyStr(<<"a">>)))}

\* POST /webrtc/offer
handle_webrtc_offer(body) ==
    LET fail(exc, wid) ==
            last' = [NoObs EXCEPT !.op = "offer", !.input = body, !.wid = wid,
                                  !.connectionsBefore = Cardinality(Keys(connections)),
                                  !.before = [connections |-> connections,
                                              data_channels |-> data_channels],
                                  !.status = 500, !.text = ErrorResponse(exc)]
    IN  IF body = BadBody
        THEN fail("JSONDecodeError", PyNone)
             /\ UNCHANGED <<connections, data_channels, pcs, channels, uuidsUsed>>
        ELSE IF body.t # "dict"
        THEN fail("AttributeError", PyNone)
             /\ UNCHANGED <<connections, data_channels, pcs, channels, uuidsUsed>>
        ELSE LET fresh == ~HasKey(body, <<"webrtc_id">>)
                 webrtc_id == DictGet(body, <<"webrtc_id">>, Uuid(uuidsUsed + 1))
                 offer_sdp == DictGet(body, <<"sdp">>, PyNone)
                 offer_type == DictGet(body, <<"type">>, PyNone)
                 pc == Len(pcs) + 1
             IN  /\ fresh => uuidsUsed < MaxUuids
                 /\ uuidsUsed' = IF fresh THEN uuidsUsed + 1 ELSE uuidsUsed
                 /\ UNCHANGED <<data_channels, channels>>
                 /\ IF ~Hashable(webrtc_id)
                    THEN fail("TypeError", webrtc_id) /\ UNCHANGED <<connections, pcs>>
                    ELSE /\ Len(pcs) < MaxPcs
                         /\ connections' = Put(connections, webrtc_id, pc)
                         /\ IF DatachannelDecorator(aiortc) # "none"
                            THEN /\ pcs' = Append(pcs, [wid |-> webrtc_id, handler |-> FALSE,
                                                        negotiated |-> FALSE, closed |-> FALSE])
                                 /\ fail(DatachannelDecorator(aiortc), webrtc_id)
                            ELSE LET n == IF aiortc THEN EngineNegotiate(offer_sdp, offer_type)
                                          ELSE [exc |-> "none",
                                                answer |-> [type |-> <<"answer">>,
                                                            sdp |-> <<"mock-answer-sdp-with-datachannel-support">>]]
                                 IN  /\ pcs' = Append(pcs, [wid |-> webrtc_id, handler |-> TRUE,
                                                            negotiated |-> n.exc = "none",
                                                            closed |-> FALSE])
                                     /\ IF n.exc # "none" THEN fail(n.exc, webrtc_id)
                                        ELSE last' = [NoObs EXCEPT
                                                 !.op = "offer", !.input = body, !.wid = webrtc_id,
                                                 !.connectionsBefore = Cardinality(Keys(connections)),
                                                 !.before = [connections |-> connections,
                                                             data_channels |-> data_channels],
                                                 !.status = 200,
                                                 !.text = Dumps(PyDict(<<
                                                     <<<<"type">>, PyStr(n.answer.type)>>,
                                                     <<<<"sdp">>, PyStr(n.answer.sdp)>> >>)).text]

Offer ==
    /\ \E body \in OfferBodies : handle_webrtc_offer(body)
    /\ UNCHANGED <<aiortc, gvars, dvars>>

\* the body GET /status answers with, before json.dumps
StatusData ==
    [connections |-> Cardinality(Keys(connections)),
     data_channels |-> Len(data_channels),
     aiortc_available |-> aiortc,
     active_sessions |-> [i \in 1..Len(data_channels) |-> data_channels[i][1]]]

\* GET /status
handle_status ==
    /\ last' = [NoObs EXCEPT !.op = "status", !.status = 200,
                             !.text = Dumps(PyDict(<<
                                 <<<<"connections">>, PyInt(StatusData.connections)>>,
                                 <<<<"data_channels">>, PyInt(StatusData.data_channels)>> >>)).text]
    /\ UNCHANGED <<aiortc, connections, data_channels, pcs, channels, uuidsUsed, gvars, dvars>>

(***************************************************************************)
(* The data channel callbacks                                              *)
(***************************************************************************)
\* datetime.now().isoformat()
Now == PyStr(<<"2025-01-01T00:00:00">>)

RECURSIVE PyRepr(_), PyReprItems(_, _)
\* repr(v), for text without a single quote
PyRepr(v) ==
    CASE v.t = "none" -> <<"None">>
      [] v.t = "bool" -> IF v.b THEN <<"True">> ELSE <<"False">>
      [] v.t = "int" -> IntText(v.n)
      [] v.t = "str" ->
             LET RECURSIVE esc(_)
                 esc(x) == IF x = <<>> THEN <<>>
                           ELSE (IF Head(x) = "\\" THEN <<"\\", "\\">> ELSE <<Head(x)>>)
                                \o esc(Tail(x))
             IN  <<"'">> \o esc(v.s) \o <<"'">>
      [] v.t = "list" -> <<"[">> \o PyReprItems(v.items, FALSE) \o <<"]">>
      [] v.t = "dict" -> <<"{">> \o PyReprItems(v.items, TRUE) \o <<"}">>

PyReprItems(items, keyed) ==
    IF items = <<>> THEN <<>>
    ELSE (IF keyed
          THEN PyRepr(PyStr(Head(items)[1])) \o <<":", " ">> \o PyRepr(Head(items)[2])
          ELSE PyRepr(Head(items)))
         \o (IF Len(items) > 1 THEN <<",", " ">> ELSE <<>>)
         \o PyReprItems(Tail(items), keyed)

\* str(v), as an f-string formats v
PyFormat(v) == IF v.t = "str" THEN v.s ELSE PyRepr(v)

ServerReady ==
    PyDict(<< <<<<"type">>, PyStr(<<"server_ready">>)>>,
              <<<<"message">>, PyStr(<<"DataChannel", " ", "connection", " ", "established!">>)>> >>)

InvalidJson ==
    PyDict(<< <<<<"type">>, PyStr(<<"error">>)>>,
              <<<<"message">>, PyStr(<<"Invalid", " ", "JSON">>)>> >>)

\* the response on_message builds for a decoded object
MessageResponse(msg_data, readyState) ==
    LET type == DictGet(msg_data, <<"type">>, PyNone)
    IN  IF type = PyStr(<<"chat">>)
        THEN PyDict(<< <<<<"type">>, PyStr(<<"chat_response">>)>>,
                       <<<<"id">>, DictGet(msg_data, <<"id">>, PyStr(<<"uuid4">>))>>,
                       <<<<"message">>,
                         PyStr(<<"Echo:", " ">>
                               \o PyFormat(DictGet(msg_data, <<"data">>, PyStr(<<"No", " ", "data">>))))>> >>)
        ELSE IF type = PyStr(<<"stop_chat">>)
        THEN PyDict(<< <<<<"type">>, PyStr(<<"chat_stopped">>)>>,
                       <<<<"message">>, PyStr(<<"Chat", " ", "stopped">>)>> >>)
        ELSE IF type = PyStr(<<"test">>)
        THEN PyDict(<< <<<<"type">>, PyStr(<<"test_response">>)>>,
                       <<<<"message">>, PyStr(<<"DataChannel", " ", "state", " ", "checking", " ", "is", " ", "working!">>)>>,
                       <<<<"channel_state">>, PyStr(<<readyState>>)>>,
                       <<<<"timestamp">>, Now>> >>)
        ELSE PyDict(<< <<<<"type">>, PyStr(<<"echo">>)>>, <<<<"original">>, msg_data>> >>)

\* the "message" handler sending again when the send returned False
OnMessageRetries(c, readyState, message, sendFails) ==
    LET p == Loads(message)
        payload == IF ~p.ok THEN InvalidJson
                   ELSE IF p.val.t # "dict" THEN PyNone
                   ELSE MessageResponse(p.val, readyState)
        a == Attempt(c, readyState, payload, sendFails)
    IN  IF p.ok /\ p.val.t # "dict"
        THEN [attempts |-> <<>>, raised |-> "AttributeError"]
        ELSE [attempts |-> IF a.ret THEN <<a>> ELSE <<a, a>>, raised |-> "none"]

\* the handler of the channel's "message" event: what it attempts and what it raises
on_message(c, readyState, message, sendFails) ==
    LET p == Loads(message)
    IN  IF ~p.ok
        THEN [attempts |-> <<Attempt(c, readyState, InvalidJson, sendFails)>>, raised |-> "none"]
        ELSE IF p.val.t # "dict"
        THEN [attempts |-> <<>>, raised |-> "AttributeError"]
        ELSE [attempts |-> <<Attempt(c, readyState, MessageResponse(p.val, readyState), sendFails)>>,
              raised |-> "none"]

\* the handler of the channel's "open" event
on_open(c, readyState, sendFails) ==
    [attempts |-> <<Attempt(c, readyState, ServerReady, sendFails)>>, raised |-> "none"]

\* the "close" handler with the membership test left out
OnCloseUnguarded(c) ==
    LET d == PyDel(data_channels, channels[c].wid)
    IN  [data_channels |-> d.items, raised |-> d.exc]

\* the handler of the channel's "close" event: data_channels after it and the
\* exception that leaves it
on_close(c) ==
    IF channels[c].wid \in ItemKeys(data_channels)
    THEN LET d == PyDel(data_channels, channels[c].wid)
         IN  [data_channels |-> d.items, raised |-> d.exc]
    ELSE [data_channels |-> data_channels, raised |-> "none"]

\* the handler of the peer connection's "datachannel" event, on data_channels
on_datachannel(p, c) == DictSet(data_channels, pcs[p].wid, c)

Messages ==
    { <<"hello">>,
      <<"{", "\"", "type", "\"", ":">>,
      <<"{", "\"", "type", "\"", ":", "\"", "chat", "\"", ",", "\"", "data", "\"", ":", "\"", "hi", "\"",
        ",", "\"", "id", "\"", ":", "7", "}">>,
      <<"{", "\"", "type", "\"", ":", " ", "\"", "chat", "\"", ",", " ", "\"", "data", "\"", ":", " ",
        "[", "1", ",", "null", ",", "\"", "x", "\\", "\"", "\"", "]", "}">>,
      <<"{", "\"", "type", "\"", ":", "\"", "stop_chat", "\"", "}">>,
      <<" ", "{", " ", "\"", "type", "\"", " ", ":", " ", "\"", "test", "\"", " ", "}", " ">>,
      <<"{", "\"", "type", "\"", ":", "\"", "ping", "\"", ",", "\"", "n", "\"", ":", "-", "1", "0", "}">>,
      <<"{", "}">>,
      <<"[", "1", "]">>,
      <<"4", "2">>,
      <<"\"", "chat", "\"">>,
      <<"null">> }

\* the engine announces a channel the remote peer created on a negotiated connection
DataChannelEvent ==
    /\ Len(channels) < MaxChannels
    /\ \E p \in 1..Len(pcs) :
         /\ pcs[p].handler /\ pcs[p].negotiated
         /\ channels' = Append(channels, [pc |-> p, wid |-> pcs[p].wid, readyState |-> "connecting"])
         /\ data_channels' = on_datachannel(p, Len(channels) + 1)
         /\ last' = [NoObs EXCEPT !.op = "datachannel", !.wid = pcs[p].wid, !.ch = Len(channels) + 1]
    /\ UNCHANGED <<aiortc, connections, pcs, uuidsUsed, gvars, dvars>>

\* the channel becomes open and the engine emits "open"
ChannelOpen ==
    /\ \E c \in 1..Len(channels), sendFails \in BOOLEAN :
         /\ channels[c].readyState = "connecting"
         /\ channels' = [channels EXCEPT ![c].readyState = "open"]
         /\ LET r == on_open(c, "open", sendFails)
            IN  last' = [NoObs EXCEPT !.op = "open", !.wid = channels[c].wid, !.ch = c,
                                      !.attempts = r.attempts, !.raised = r.raised]
    /\ UNCHANGED <<aiortc, connections, data_channels, pcs, uuidsUsed, gvars, dvars>>

\* the engine emits "message" with a text the remote peer sent
ChannelMessage ==
    /\ \E c \in 1..Len(channels), message \in Messages, sendFails \in BOOLEAN :
         /\ channels[c].readyState \in {"open", "closing"}
         /\ sendFails => channels[c].readyState = "open"
         /\ LET r == on_message(c, channels[c].readyState, message, sendFails)
            IN  last' = [NoObs EXCEPT !.op = "message", !.wid = channels[c].wid, !.ch = c,
                                      !.input = PyStr(message),
                                      !.attempts = r.attempts, !.raised = r.raised]
    /\ UNCHANGED <<aiortc, connections, data_channels, pcs, channels, uuidsUsed, gvars, dvars>>

\* the channel starts closing; no handler is registered for this
ChannelClosing ==
    /\ \E c \in 1..Len(channels) :
         /\ channels[c].readyState = "open"
         /\ channels' = [channels EXCEPT ![c].readyState = "closing"]
         /\ last' = [NoObs EXCEPT !.op = "closing", !.wid = channels[c].wid, !.ch = c]
    /\ UNCHANGED <<aiortc, connections, data_channels, pcs, uuidsUsed, gvars, dvars>>

\* the channel is closed and the engine emits "close"
ChannelClose ==
    /\ \E c \in 1..Len(channels) :
         /\ channels[c].readyState # "closed"
         /\ channels' = [channels EXCEPT ![c].readyState = "closed"]
         /\ data_channels' = on_close(c).data_channels
         /\ last' = [NoObs EXCEPT !.op = "close", !.wid = channels[c].wid, !.ch = c,
                                  !.raised = on_close(c).raised,
                                  !.before = [connections |-> connections,
                                              data_channels |-> data_channels]]
    /\ UNCHANGED <<aiortc, connections, pcs, uuidsUsed, gvars, dvars>>

(***************************************************************************)
(* GET/POST /test                                                          *)
(***************************************************************************)
\* a request whose content type is not application/json
NoJsonBody == [t |-> "absent"]

UnknownId == PyStr(<<"zz">>)

TestBodies ==
    {NoJsonBody, BadBody, PyList(<<>>), PyDict(<<>>),
     PyDict(<< <<<<"message">>, PyStr(<<"ping">>)>> >>),
     PyDict(<< <<<<"webrtc_id">>, PyStr(<<"a">>)>>, <<<<"message">>, PyInt(3)>> >>),
     PyDict(<< <<<<"webrtc_id">>, PyList(<<PyInt(1)>>)>> >>)}
    \cup {PyDict(<< <<<<"webrtc_id">>, i>> >>) : i \in ClientIds \cup {UnknownId, PyStr(<<>>)}}

TestResult(wid, a, readyState) ==
    PyDict(<< <<<<"webrtc_id">>, wid>>,
              <<<<"success">>, PyBool(a.ret)>>,
              <<<<"channel_state">>, PyStr(<<readyState>>)>> >>)

TestPayload(kind, test_message) ==
    PyDict(<< <<<<"type">>, PyStr(<<kind>>)>>, <<<<"message">>, test_message>> >>)

\* the attempts of the handler: one on the named channel, or one on every channel
\* of the registry in its order; failing is the set of ids whose transport fails
TestAttempts(webrtc_id, test_message, failing) ==
    IF Truthy(webrtc_id) /\ webrtc_id \in ItemKeys(data_channels)
    THEN LET c == ItemGet(data_channels, webrtc_id)
         IN  <<[wid |-> webrtc_id,
                a |-> Attempt(c, channels[c].readyState,
                              TestPayload("server_test", test_message), webrtc_id \in failing)]>>
    ELSE [i \in 1..Len(data_channels) |->
            LET wid == data_channels[i][1]
                c == data_channels[i][2]
            IN  [wid |-> wid,
                 a |-> Attempt(c, channels[c].readyState,
                               TestPayload("broadcast_test", test_message), wid \in failing)]]

handle_datachannel_test(body, failing) ==
    LET fail(exc) ==
            last' = [NoObs EXCEPT !.op = "test", !.input = body,
                                  !.status = 500, !.text = ErrorResponse(exc)]
        data == IF body = NoJsonBody THEN PyDict(<<>>) ELSE body
    IN  IF body = BadBody THEN fail("JSONDecodeError")
        ELSE IF data.t # "dict" THEN fail("AttributeError")
        ELSE LET webrtc_id == DictGet(data, <<"webrtc_id">>, PyNone)
                 test_message == DictGet(data, <<"message">>,
                                         PyStr(<<"Test", " ", "message", " ", "from", " ", "server">>))
             IN  IF Truthy(webrtc_id) /\ ~Hashable(webrtc_id) THEN fail("TypeError")
                 ELSE LET as == TestAttempts(webrtc_id, test_message, failing)
                          results == [i \in 1..Len(as) |->
                                        TestResult(as[i].wid, as[i].a,
                                                   channels[as[i].a.ch].readyState)]
                      IN  last' = [NoObs EXCEPT
                               !.op = "test", !.input = body, !.wid = webrtc_id,
                               !.status = 200,
                               !.attempts = [i \in 1..Len(as) |-> as[i].a],
                               !.text = Dumps(PyDict(<<
                                   <<<<"test_results">>, PyList(results)>>,
                                   <<<<"total_channels">>, PyInt(Len(data_channels))>>,
                                   <<<<"timestamp">>, Now>> >>)).text]

\* the ids of the registry whose channel is open: the transport is only reached there
OpenKeys ==
    {data_channels[i][1] : i \in {j \in 1..Len(data_channels) :
                                     channels[data_channels[j][2]].readyState = "open"}}

Test ==
    /\ \E body \in TestBodies, failing \in SUBSET OpenKeys :
         handle_datachannel_test(body, failing)
    /\ UNCHANGED <<aiortc, connections, data_channels, pcs, channels, uuidsUsed, gvars, dvars>>

(***************************************************************************)
(* WebRTCDebugger                                                          *)
(***************************************************************************)
\* what an HTTP request of the client ends with
HttpResponse(status, body) == [kind |-> "response", status |-> status, body |-> body]
HttpError(exc) == [kind |-> "error", exc |-> exc]

HttpFailures ==
    {HttpError("ClientConnectorError"), HttpError("TimeoutError"),
     HttpResponse(404, PyNone), HttpResponse(500, PyNone)}

Raise(exc) == [exc |-> exc, val |-> PyNone]
Return(v) == [exc |-> "none", val |-> v]

\* whether the symbols of a occur in b as one run
IsSubstring(a, b) ==
    \E i \in 0..(Len(b) - Len(a)) : \A j \in 1..Len(a) : b[i + j] = a[j]

\* k in x, for a str k
PyIn(k, x) ==
    CASE x.t = "dict" -> Return(PyBool(HasKey(x, k.s)))
      [] x.t = "list" -> Return(PyBool(\E i \in 1..Len(x.items) : x.items[i] = k))
      [] x.t = "str" -> Return(PyBool(IsSubstring(k.s, x.s)))
      [] OTHER -> Raise("TypeError")

\* the values a for loop over x visits
PyIter(x) ==
    CASE x.t = "list" -> Return(x.items)
      [] x.t = "dict" -> Return([i \in 1..Len(x.items) |-> PyStr(x.items[i][1])])
      [] x.t = "str" -> Return([i \in 1..Len(x.s) |-> PyStr(<<x.s[i]>>)])
      [] OTHER -> Raise("TypeError")

\* len(x)
PyLen(x) ==
    CASE x.t = "list" -> Return(PyInt(Len(x.items)))
      [] x.t = "dict" -> Return(PyInt(Len(x.items)))
      [] x.t = "str" -> Return(PyInt(Len(x.s)))
      [] OTHER -> Raise("TypeError")

\* x.get(k, default)
PyGet(x, k, default) ==
    IF x.t = "dict" THEN Return(DictGet(x, k, default)) ELSE Raise("AttributeError")

\* a connectivity probe that takes any response for success
ConnectivityAnyStatus(http) == http.kind # "error"

\* GET /: True on status 200, False on any other status or exception
test_server_connectivity(http) ==
    IF http.kind = "error" THEN FALSE
    ELSE http.status = 200

\* the try block of test_config_endpoint
ConfigProbeBody(http) ==
    IF http.kind = "error" THEN Raise(http.exc)
    ELSE IF http.status # 200 THEN Return(PyNone)
    ELSE IF http.body = BadBody THEN Raise("ContentTypeError")
    ELSE LET config == http.body
             hasRtc == PyIn(PyStr(<<"rtc_configuration">>), config)
         IN  IF hasRtc.exc # "none" THEN Raise(hasRtc.exc)
             ELSE IF ~hasRtc.val.b THEN Return(config)
             ELSE LET rtc_config == DictGet(config, <<"rtc_configuration">>, PyNone)
                      hasIce == PyIn(PyStr(<<"iceServers">>), rtc_config)
                  IN  IF hasIce.exc # "none" THEN Raise(hasIce.exc)
                      ELSE IF ~hasIce.val.b THEN Return(config)
                      ELSE LET ice_servers == DictGet(rtc_config, <<"iceServers">>, PyNone)
                           IN  IF PyLen(ice_servers).exc # "none" THEN Raise(PyLen(ice_servers).exc)
                               ELSE IF PyIter(ice_servers).exc # "none"
                               THEN Raise(PyIter(ice_servers).exc)
                               ELSE Return(config)

\* GET /openavatarchat/initconfig: the config, or None on any failure
test_config_endpoint(http) ==
    LET r == ConfigProbeBody(http)
    IN  IF r.exc # "none" THEN PyNone ELSE r.val

\* POST /webrtc/offer: True on status 200 with a JSON body
test_webrtc_offer_endpoint(http) ==
    IF http.kind = "error" THEN FALSE
    ELSE IF http.status # 200 THEN FALSE
    ELSE http.body # BadBody

\* one element of the generators of has_stun and has_turn
ServerHas(scheme, server) ==
    LET urls == PyGet(server, <<"urls">>, PyNone)
    IN  IF urls.exc # "none" THEN Raise(urls.exc)
        ELSE IF urls.val.t = "list"
        THEN IF urls.val.items = <<>> THEN Raise("IndexError")
             ELSE PyIn(PyStr(<<scheme>>), urls.val.items[1])
        ELSE PyIn(PyStr(<<scheme>>), DictGet(server, <<"urls">>, PyStr(<<>>)))

\* any(...) over the servers: stops at the first true element
RECURSIVE AnyServerHas(_, _)
AnyServerHas(scheme, servers) ==
    IF servers = <<>> THEN Return(PyBool(FALSE))
    ELSE LET h == ServerHas(scheme, Head(servers))
         IN  IF h.exc # "none" THEN Raise(h.exc)
             ELSE IF h.val.b THEN Return(PyBool(TRUE))
             ELSE AnyServerHas(scheme, Tail(servers))

\* the exception check_common_issues ends with, "none" when it returns
check_common_issues(config) ==
    IF ~Truthy(config) THEN "none"
    ELSE LET rtc_config == PyGet(config, <<"rtc_configuration">>, PyDict(<<>>))
         IN  IF rtc_config.exc # "none" THEN rtc_config.exc
             ELSE LET ice_servers == PyGet(rtc_config.val, <<"iceServers">>, PyList(<<>>))
                  IN  IF ice_servers.exc # "none" THEN ice_servers.exc
                      ELSE IF ~Truthy(ice_servers.val) THEN "none"
                      ELSE LET servers == PyIter(ice_servers.val)
                           IN  IF servers.exc # "none" THEN servers.exc
                               ELSE IF AnyServerHas("stun:", servers.val).exc # "none"
                               THEN AnyServerHas("stun:", servers.val).exc
                               ELSE AnyServerHas("turn:", servers.val).exc

RtcConfig(ice) == PyDict(<< <<<<"rtc_configuration">>, PyDict(<< <<<<"iceServers">>, ice>> >>)>> >>)
IceServer(urls) == PyDict(<< <<<<"urls">>, urls>> >>)

\* the config handle_config of the test server answers with
ServerConfig ==
    RtcConfig(PyList(<<IceServer(PyStr(<<"stun:", "stun.l.google.com:19302">>)),
                       IceServer(PyStr(<<"stun:", "stun1.l.google.com:19302">>))>>))

Configs ==
    { ServerConfig,
      RtcConfig(PyList(<<IceServer(PyList(<<PyStr(<<"turn:", "relay">>)>>))>>)),
      RtcConfig(PyList(<<>>)),
      RtcConfig(PyList(<<IceServer(PyList(<<>>))>>)),
      RtcConfig(PyList(<<PyStr(<<"stun:", "x">>)>>)),
      RtcConfig(PyInt(5)),
      PyDict(<< <<<<"rtc_configuration">>, PyDict(<<>>)>> >>),
      PyDict(<< <<<<"rtc_configuration">>, PyInt(5)>> >>),
      PyDict(<< <<<<"rtc_configuration">>, PyList(<<PyInt(1)>>)>> >>),
      PyDict(<< <<<<"server_info">>, PyStr(<<"x">>)>> >>),
      PyDict(<<>>), PyList(<<PyStr(<<"x">>)>>), PyStr(<<"abc">>), PyInt(5), PyNone }

DiagWorlds ==
    [conn : HttpFailures \cup {HttpResponse(200, PyStr(<<"html">>))},
     config : HttpFailures \cup {HttpResponse(200, BadBody)}
              \cup {HttpResponse(200, c) : c \in Configs},
     offer : HttpFailures \cup {HttpResponse(200, BadBody),
                                HttpResponse(200, PyDict(<< <<<<"type">>, PyStr(<<"answer">>)>> >>))}]

DiagInit ==
    /\ dpc = "connectivity"
    /\ dworld \in DiagWorlds
    /\ dlog = <<>>
    /\ dconfig = PyNone
    /\ dofferOk = FALSE
    /\ dexc = "none"

DiagIdle ==
    /\ dpc = "idle"
    /\ dworld = [conn |-> HttpError("TimeoutError"), config |-> HttpError("TimeoutError"),
                 offer |-> HttpError("TimeoutError")]
    /\ dlog = <<>>
    /\ dconfig = PyNone
    /\ dofferOk = FALSE
    /\ dexc = "none"

\* Test 1 of diagnose_webrtc_issues
DiagConnectivity ==
    /\ dpc = "connectivity"
    /\ dlog' = Append(dlog, "connectivity")
    /\ dpc' = IF test_server_connectivity(dworld.conn) THEN "config" ELSE "returned"
    /\ UNCHANGED <<dworld, dconfig, dofferOk, dexc, gvars, svars>>

\* Test 2
DiagConfig ==
    /\ dpc = "config"
    /\ dlog' = Append(dlog, "config")
    /\ dconfig' = test_config_endpoint(dworld.config)
    /\ dpc' = IF Truthy(dconfig') THEN "offer" ELSE "returned"
    /\ UNCHANGED <<dworld, dofferOk, dexc, gvars, svars>>

\* Test 3
DiagOffer ==
    /\ dpc = "offer"
    /\ dlog' = Append(dlog, "offer")
    /\ dofferOk' = test_webrtc_offer_endpoint(dworld.offer)
    /\ dpc' = "common"
    /\ UNCHANGED <<dworld, dconfig, dexc, gvars, svars>>

\* Test 4 and the closing log line
DiagCommon ==
    /\ dpc = "common"
    /\ dlog' = Append(dlog, "common")
    /\ dexc' = check_common_issues(dconfig)
    /\ dpc' = IF dexc' = "none" THEN "complete" ELSE "raised"
    /\ UNCHANGED <<dworld, dconfig, dofferOk, gvars, svars>>

(***************************************************************************)
(* Specifications                                                          *)
(***************************************************************************)
Init == GuardIdle /\ ServerInit /\ DiagIdle

InitGuard == GuardInit /\ ServerIdle /\ DiagIdle

InitDiag == GuardIdle /\ ServerIdle /\ DiagInit

Next ==
    \/ Offer
    \/ handle_status
    \/ Test
    \/ DataChannelEvent
    \/ ChannelOpen
    \/ ChannelMessage
    \/ ChannelClosing
    \/ ChannelClose

Spec == Init /\ [][Next]_vars

GuardNext ==
    \/ GuardCall /\ UNCHANGED <<svars, dvars>>
    \/ GuardAgain /\ UNCHANGED <<svars, dvars>>

SpecGuard == InitGuard /\ [][GuardNext]_vars

DiagNext == DiagConnectivity \/ DiagConfig \/ DiagOffer \/ DiagCommon

SpecDiag == InitDiag /\ [][DiagNext]_vars

(***************************************************************************)
(* Properties                                                              *)
(***************************************************************************)
NotOpen(channel) == channel.kind # "channel" \/ channel.readyState # "open"

\* C1: on a handle that is absent, has no readyState or is not open,
\* safe_channel_send returns False, never calls send and raises nothing,
\* whatever the payload.
C1_FailsClosed ==
    (gpc = "done" /\ NotOpen(gchannel)) =>
        (gout.ret = FALSE /\ gout.calls = <<>> /\ gout.raised = "none")

C1_Witness ==
    /\ gpc = "done"
    /\ gchannel = Channel("connecting")
    /\ gpayload = ChatPayload
    /\ gout.ret = FALSE
    /\ gout.log = "warning"

\* C2: on an open channel whose send raises, or with a payload json.dumps
\* cannot encode, safe_channel_send returns False and no exception leaves it.
C2_FailureContained ==
    (gpc = "done" /\ gchannel = Channel("open") /\ (gsendFails \/ ~Serializable(gpayload))) =>
        (gout.ret = FALSE /\ gout.raised = "none")

C2_Witness ==
    /\ gpc = "done"
    /\ gchannel = Channel("open")
    /\ gsendFails
    /\ gpayload = ChatPayload
    /\ Len(gout.calls) = 1
    /\ gout.ret = FALSE
    /\ gout.log = "error"

\* C3: on an open channel whose send succeeds, safe_channel_send returns True
\* and calls send exactly once; a string payload is sent unchanged, and the text
\* sent for a structured payload decodes to that payload.
C3_SendsRoundTrip ==
    (gpc = "done" /\ gchannel = Channel("open") /\ ~gsendFails /\ Serializable(gpayload)) =>
        /\ gout.ret = TRUE
        /\ Len(gout.calls) = 1
        /\ gpayload.t = "str" => gout.calls[1] = gpayload.s
        /\ gpayload.t # "str" => Loads(gout.calls[1]) = [ok |-> TRUE, val |-> gpayload]

C3_Witness ==
    /\ gpc = "done"
    /\ gchannel = Channel("open")
    /\ ~gsendFails
    /\ gpayload.t = "dict"
    /\ HasKey(gpayload, <<"original">>)
    /\ gout.ret = TRUE
    /\ Len(gout.calls) = 1
    /\ Len(gout.calls[1]) > Len(gpayload.items)

\* the decoded body of the last response
LastBody == Loads(last.text).val

WellFormedOfferWithoutId(body) ==
    /\ body # BadBody
    /\ body.t = "dict"
    /\ ~HasKey(body, <<"webrtc_id">>)
    /\ DictGet(body, <<"type">>, PyNone) = PyStr(<<"offer">>)
    /\ DictGet(body, <<"sdp">>, PyNone) = PyStr(GoodSdp)

\* C4: a well-formed offer without webrtc_id is answered with status 200 and a
\* body of type "answer" with a non-empty sdp, and /status then counts one
\* connection more, with the engine and on the mock fallback.
C4_OfferAnswered ==
    (last.op = "offer" /\ WellFormedOfferWithoutId(last.input)) =>
        /\ last.status = 200
        /\ DictGet(LastBody, <<"type">>, PyNone) = PyStr(<<"answer">>)
        /\ Truthy(DictGet(LastBody, <<"sdp">>, PyNone))
        /\ StatusData.connections = last.connectionsBefore + 1

\* the results of the last /test response that report success
SuccessfulResults ==
    LET results == DictGet(LastBody, <<"test_results">>, PyList(<<>>)).items
    IN  {i \in 1..Len(results) : DictGet(results[i], <<"success">>, PyNone) = PyBool(TRUE)}

\* C5: /test with a webrtc_id that is not in the channel registry answers 200,
\* lists no successful send and sends nothing on any channel.
C5_UnknownIdSendsNothing ==
    (last.op = "test" /\ Truthy(last.wid) /\ last.wid \notin ItemKeys(data_channels)) =>
        /\ last.status = 200
        /\ SuccessfulResults = {}
        /\ \A i \in 1..Len(last.attempts) : last.attempts[i].calls = <<>>

\* C6: on_message returns normally for every text; when the text does not
\* decode it makes one guarded send of the error payload and nothing else.
C6_MessageNeverThrows ==
    last.op = "message" =>
        /\ last.raised = "none"
        /\ ~Loads(last.input.s).ok =>
               /\ Len(last.attempts) = 1
               /\ last.attempts[1].payload = InvalidJson

\* C7: once the close event of a session's channel is handled, its id is in
\* neither data_channels nor connections and its peer connection is closed.
C7_CloseRemovesSession ==
    last.op = "close" =>
        /\ last.wid \notin ItemKeys(data_channels)
        /\ last.wid \notin Keys(connections)
        /\ pcs[channels[last.ch].pc].closed

\* the ids whose channel's close event has been handled
ClosedObserved == {channels[c].wid : c \in {d \in 1..Len(channels) : channels[d].readyState = "closed"}}

\* C8: an id observed closed, with its entry removed, never again has a channel
\* attached.
C8_ClosedStaysClosed ==
    [][\A w \in ClosedObserved :
         w \notin ItemKeys(data_channels) => w \notin ItemKeys(data_channels')]_vars

\* C9: no two peer connections are created under one id.
C9_UniqueIds ==
    \A p, q \in 1..Len(pcs) : p # q => pcs[p].wid # pcs[q].wid

DiagEnded == dpc \in {"returned", "complete", "raised"}

AllSteps == <<"connectivity", "config", "offer", "common">>

\* C10 as stated: every run executes the four steps in order and no exception
\* leaves it, whatever the probes find.
C10_AlwaysWholeChecklist ==
    DiagEnded => (dlog = AllSteps /\ dexc = "none")

Status200(http) == http.kind = "response" /\ http.status = 200

\* C10 as amended: the connectivity probe always runs; the config probe runs
\* exactly when the connectivity probe got status 200; the offer probe and the
\* common-issues check run, in that order, exactly when the config probe
\* returned a non-empty config, whether or not the offer probe passed; a failed
\* probe never raises, and an exception can leave the run only from the
\* common-issues check.
C10_ChecklistGated ==
    DiagEnded =>
        /\ dlog = IF ~Status200(dworld.conn) THEN <<"connectivity">>
                  ELSE IF ~(Status200(dworld.config) /\ dworld.config.body # BadBody
                            /\ Truthy(dconfig))
                  THEN <<"connectivity", "config">>
                  ELSE AllSteps
        /\ dexc # "none" => (dlog = AllSteps /\ dpc = "raised")
        /\ ~Status200(dworld.config) => dconfig = PyNone

C10_Witness ==
    /\ dpc = "complete"
    /\ dlog = AllSteps
    /\ dworld.offer = HttpError("TimeoutError")
    /\ ~dofferOk
    /\ dconfig = ServerConfig
    /\ dexc = "none"

\* C11: removing a session is idempotent. Once the close event of a channel is
\* handled, handling it again leaves data_channels as it is and raises nothing;
\* and a close event for an id that had no entry changed neither map and
\* raised nothing.
C11_CloseIdempotent ==
    last.op = "close" =>
        /\ last.raised = "none"
        /\ on_close(last.ch).data_channels = data_channels
        /\ on_close(last.ch).raised = "none"
        /\ last.wid \notin ItemKeys(last.before.data_channels) =>
               /\ data_channels = last.before.data_channels
               /\ connections = last.before.connections

\* the close event of the second channel of a session, whose entry the close of
\* the first channel had already removed
C11_Witness ==
    /\ last.op = "close"
    /\ last.wid \notin ItemKeys(last.before.data_channels)
    /\ \A c \in 1..Len(channels) : channels[c].readyState = "closed"
    /\ Len(channels) = MaxChannels
    /\ channels[1].wid = channels[2].wid

\* the message the last "message" event carried, decoded
LastMessage == Loads(last.input.s)

\* the response type the claim names for a message type
DispatchedType(type) ==
    IF type = PyStr(<<"chat">>) THEN PyStr(<<"chat_response">>)
    ELSE IF type = PyStr(<<"stop_chat">>) THEN PyStr(<<"chat_stopped">>)
    ELSE IF type = PyStr(<<"test">>) THEN PyStr(<<"test_response">>)
    ELSE PyStr(<<"echo">>)

\* C12: a message that parses to a JSON object causes exactly one call of
\* safe_channel_send, on the channel it arrived on, with the response of its
\* type: chat_response, chat_stopped, test_response, or for any other or
\* missing type an echo carrying the message. The transport is asked to send
\* at most once, and a send that returned False is not repeated.
C12_DispatchedOnce ==
    (last.op = "message" /\ LastMessage.ok /\ LastMessage.val.t = "dict") =>
        /\ last.raised = "none"
        /\ Len(last.attempts) = 1
        /\ last.attempts[1].ch = last.ch
        /\ Len(last.attempts[1].calls) <= 1
        /\ last.attempts[1].raised = "none"
        /\ LET response == last.attempts[1].payload
               type == DictGet(LastMessage.val, <<"type">>, PyNone)
           IN  /\ response.t = "dict"
               /\ DictGet(response, <<"type">>, PyNone) = DispatchedType(type)
               /\ DispatchedType(type) = PyStr(<<"echo">>) =>
                      DictGet(response, <<"original">>, PyNone) = LastMessage.val

\* a chat message arrived on an open channel and the send of its response failed
C12_Witness ==
    /\ last.op = "message"
    /\ LastMessage.ok
    /\ LastMessage.val.t = "dict"
    /\ DictGet(LastMessage.val, <<"type">>, PyNone) = PyStr(<<"chat">>)
    /\ Len(last.attempts) = 1
    /\ ~last.attempts[1].ret
    /\ Len(last.attempts[1].calls) = 1

\* the channel most recently attached to the session id of channel c
LatestAttached(c) ==
    \A d \in 1..Len(channels) : channels[d].wid = channels[c].wid => d <= c

\* C13: the close event of a channel removes the data_channels entry of its
\* session id only when the entry holds that channel: the close of a replaced
\* channel leaves data_channels as it was, and the open channel most recently
\* attached to a session id is the one data_channels holds for it.
C13_CloseKeepsReplacement ==
    /\ (/\ last.op = "close"
        /\ last.wid \in ItemKeys(last.before.data_channels)
        /\ ItemGet(last.before.data_channels, last.wid) # last.ch)
           => data_channels = last.before.data_channels
    /\ \A c \in 1..Len(channels) :
           (channels[c].readyState = "open" /\ LatestAttached(c)) =>
               /\ channels[c].wid \in ItemKeys(data_channels)
               /\ ItemGet(data_channels, channels[c].wid) = c

\* C14: an offer answered with status 500 leaves connections and data_channels
\* as they were before the request.
C14_FailedOfferLeavesRegistry ==
    (last.op = "offer" /\ last.status = 500) =>
        /\ connections = last.before.connections
        /\ data_channels = last.before.data_channels

\* C15: every session id with a channel in data_channels has a peer connection
\* in connections, so the channel count /status reports never exceeds the
\* connection count.
C15_ChannelsHaveConnections ==
    /\ ItemKeys(data_channels) \subseteq Keys(connections)
    /\ StatusData.data_channels <= StatusData.connections

\* /status answered while two sessions each have a channel
C15_Witness ==
    /\ last.op = "status"
    /\ Len(data_channels) = 2
    /\ Cardinality(Keys(connections)) = 2

====
